---- MODULE Spec2Model ----
(***************************************************************************)
(* The schema-and-KPI differencing engine of svat_app.py:                  *)
(*   execute_kpi_query, validate_kpis, compare_table_differences and       *)
(*   compare_column_differences.                                           *)
(*                                                                         *)
(* Python str values are TLA+ strings (Len, SubSeq and \o act on them      *)
(* character by character).  A Python value is a tagged record             *)
(* [t, n, s]: None, a number (int or float, compared by value as Python's  *)
(* == does) or a str.  The warehouse is the environment: what a cursor     *)
(* call does (raise, no row, a row) is an input of each action.            *)
(***************************************************************************)
EXTENDS Integers, Sequences, FiniteSets, TLC

VARIABLES
    q_query,        \* execute_kpi_query: the query argument
    q_schema,       \* execute_kpi_query: the schema argument
    q_beh,          \* execute_kpi_query: what the warehouse did with the statement
    q_out,          \* execute_kpi_query: the outcome and the statement sent
    pc,             \* validate_kpis: "start", "loop" or "done"
    kpis,           \* validate_kpis: rows fetched from ORDER_KPIS
    idx,            \* validate_kpis: position of the for loop in kpis
    results,        \* validate_kpis: the results list
    result_source,  \* validate_kpis: result_source of the last iteration
    result_clone,   \* validate_kpis: result_clone of the last iteration
    raised,         \* validate_kpis: whether the source and the clone query of
                    \* the last iteration raised inside execute_kpi_query
    ret,            \* validate_kpis: the returned (DataFrame rows, message)
    summary,        \* the summary metrics shown for the returned frame
    catalog,        \* the warehouse catalog: for the source and the clone
                    \* schema name, whether the schema exists and its
                    \* table -> column -> type
    table_diff,     \* compare_table_differences: returned rows
    column_diff,    \* compare_column_differences: returned column_diff_df rows
    datatype_diff,  \* compare_column_differences: returned datatype_diff_df rows
    called          \* which schema comparison has run: "none", "tables",
                    \* "columns", or "failed" when one raised

vars == <<q_query, q_schema, q_beh, q_out, pc, kpis, idx, results,
          result_source, result_clone, raised, ret, summary,
          catalog, table_diff, column_diff, datatype_diff, called>>

kpiVars == <<pc, kpis, idx, results, result_source, result_clone, raised,
             ret, summary>>
queryVars == <<q_query, q_schema, q_beh, q_out>>
schemaVars == <<catalog, table_diff, column_diff, datatype_diff, called>>

-----------------------------------------------------------------------------
(* Python values *)

None == [t |-> "none", n |-> 0, s |-> ""]
Num(v) == [t |-> "num", n |-> v, s |-> ""]
Str(x) == [t |-> "str", n |-> 0, s |-> x]

\* ASCII stand-ins for the one-symbol icons that start a status or a message.
CROSS == "#"
WARN == "!"
CHECK == "+"

\* str.startswith(prefix)
startswith(s, prefix) ==
    /\ Len(s) >= Len(prefix)
    /\ SubSeq(s, 1, Len(prefix)) = prefix

\* Mutant of replace: only the first occurrence is replaced.
replace_first(s, old, new) ==
    IF \E k \in 1..(Len(s) - Len(old) + 1) :
           SubSeq(s, k, k + Len(old) - 1) = old
    THEN LET k == CHOOSE k \in 1..(Len(s) - Len(old) + 1) :
                     /\ SubSeq(s, k, k + Len(old) - 1) = old
                     /\ \A j \in 1..(k - 1) :
                            SubSeq(s, j, j + Len(old) - 1) # old
         IN  SubSeq(s, 1, k - 1) \o new \o SubSeq(s, k + Len(old), Len(s))
    ELSE s

\* str.replace(old, new) for a non-empty old: left to right, occurrences
\* do not overlap and inserted text is not scanned again.
RECURSIVE replace(_, _, _)
replace(s, old, new) ==
    IF Len(s) < Len(old) THEN s
    ELSE IF SubSeq(s, 1, Len(old)) = old
         THEN new \o replace(SubSeq(s, Len(old) + 1, Len(s)), old, new)
         ELSE SubSeq(s, 1, 1) \o replace(SubSeq(s, 2, Len(s)), old, new)

\* The result of evaluating a Python block: exc = "" and the value val, or
\* an exception of class exc with message msg.
Ok(v) == [exc |-> "", msg |-> "", val |-> v]
Raise(cls, m) == [exc |-> cls, msg |-> m, val |-> None]

-----------------------------------------------------------------------------
(* execute_kpi_query *)

\* What cursor.execute / cursor.fetchone do for one statement.
BehRaise(m) == [kind |-> "raise", msg |-> m, value |-> None]
BehNoRow == [kind |-> "norow", msg |-> "", value |-> None]
BehRow(v) == [kind |-> "row", msg |-> "", value |-> v]

\* Lines 203-206, the body of the try.  sent is the statement handed to
\* cursor.execute ("" when none was).
execute_kpi_query_try(query, schema, beh) ==
    IF query.t # "str"
    THEN [out |-> Raise("AttributeError",
                        "'NoneType' object has no attribute 'replace'"),
          sent |-> ""]
    ELSE LET executed_query ==
                 replace(query.s, "ORDER_DATA", schema \o ".ORDER_DATA")
         IN  IF beh.kind = "raise"
             THEN [out |-> Raise("ProgrammingError", beh.msg),
                   sent |-> executed_query]
             ELSE [out |-> Ok(IF beh.kind = "row" THEN beh.value ELSE None),
                   sent |-> executed_query]

\* Mutant of execute_kpi_query: no except, the exception leaves the call.
execute_kpi_query_uncaught(query, schema, beh) ==
    execute_kpi_query_try(query, schema, beh)

\* Lines 199-208: the try with its except Exception.
execute_kpi_query(query, schema, beh) ==
    LET body == execute_kpi_query_try(query, schema, beh)
    IN  IF body.out.exc # ""
        THEN [out |-> Ok(Str("QUERY_ERROR: " \o body.out.msg)),
              sent |-> body.sent]
        ELSE body

-----------------------------------------------------------------------------
(* validate_kpis: the comparison of one KPI's two results, lines 232-255 *)

Digits == <<"0", "1", "2", "3", "4", "5", "6", "7", "8", "9">>

IsDigit(c) == \E d \in 1..Len(Digits) : Digits[d] = c

DigitVal(c) == (CHOOSE d \in 1..Len(Digits) : Digits[d] = c) - 1

RECURSIVE AllDigits(_)
AllDigits(s) == Len(s) = 0 \/ (IsDigit(Head(s)) /\ AllDigits(Tail(s)))

RECURSIVE DigitsValue(_)
DigitsValue(s) ==
    IF Len(s) = 0 THEN 0
    ELSE DigitsValue(SubSeq(s, 1, Len(s) - 1)) * 10
         + DigitVal(SubSeq(s, Len(s), Len(s)))

\* float(v) on None, numbers and text; the text that parses here is an
\* optionally signed run of decimal digits.
float(v) ==
    IF v.t = "none"
    THEN Raise("TypeError",
               "float() argument must be a string or a number, not 'NoneType'")
    ELSE IF v.t = "num" THEN Ok(v)
    ELSE IF Len(v.s) > 0 /\ AllDigits(v.s) THEN Ok(Num(DigitsValue(v.s)))
    ELSE IF Len(v.s) > 1 /\ Head(v.s) = "-" /\ AllDigits(Tail(v.s))
         THEN Ok(Num(0 - DigitsValue(Tail(v.s))))
    ELSE Raise("ValueError",
               "could not convert string to float: '" \o v.s \o "'")

\* Mutant of Pct: the quotient is not scaled to a percentage.
Pct_unscaled(a, b) == [t |-> "pct", n |-> a, d |-> b, s |-> ""]

\* A float that is the quotient a / b * 100 (b # 0), kept exact.
Pct(a, b) == [t |-> "pct", n |-> a * 100, d |-> b, s |-> ""]
Inf == [t |-> "inf", n |-> 0, d |-> 1, s |-> ""]

\* isinstance(r, str) and r.startswith('QUERY_ERROR'), lines 236 and 238
is_query_error(r) == r.t = "str" /\ startswith(r.s, "QUERY_ERROR")

SourceError == CROSS \o " Source Error"
CloneError == CROSS \o " Clone Error"
Match == CHECK \o " Match"
Mismatch == WARN \o " Mismatch"
Error == CROSS \o " Error"

\* Mutant of compare: the clone result is tested for an error first.
compare_clone_first(r_source, r_clone) ==
    IF is_query_error(r_clone)
    THEN [diff |-> None, pct_diff |-> None, status |-> CloneError]
    ELSE IF is_query_error(r_source)
    THEN [diff |-> None, pct_diff |-> None, status |-> SourceError]
    ELSE IF r_source = r_clone
    THEN [diff |-> None, pct_diff |-> None, status |-> Match]
    ELSE LET num_source == float(r_source)
             num_clone == float(r_clone)
         IN  IF num_source.exc # "" \/ num_clone.exc # ""
             THEN [diff |-> Str("N/A"), pct_diff |-> Str("N/A"),
                   status |-> Mismatch]
             ELSE LET diff == num_source.val.n - num_clone.val.n
                  IN  [diff |-> Num(diff),
                       pct_diff |-> IF num_source.val.n # 0
                                    THEN Pct(diff, num_source.val.n)
                                    ELSE Inf,
                       status |-> Mismatch]

\* Lines 232-255: diff, pct_diff and status after the if/elif chain.
compare(r_source, r_clone) ==
    IF is_query_error(r_source)
    THEN [diff |-> None, pct_diff |-> None, status |-> SourceError]
    ELSE IF is_query_error(r_clone)
    THEN [diff |-> None, pct_diff |-> None, status |-> CloneError]
    ELSE IF r_source = r_clone
    THEN [diff |-> None, pct_diff |-> None, status |-> Match]
    ELSE LET num_source == float(r_source)
             num_clone == float(r_clone)
         IN  IF num_source.exc # "" \/ num_clone.exc # ""
             THEN [diff |-> Str("N/A"), pct_diff |-> Str("N/A"),
                   status |-> Mismatch]
             ELSE LET diff == num_source.val.n - num_clone.val.n
                  IN  [diff |-> Num(diff),
                       pct_diff |-> IF num_source.val.n # 0
                                    THEN Pct(diff, num_source.val.n)
                                    ELSE Inf,
                       status |-> Mismatch]

-----------------------------------------------------------------------------
(* validate_kpis: building one report row, lines 257-278 *)

Abs(x) == IF x < 0 THEN 0 - x ELSE x

\* a / b for a >= 0, b > 0 rounded to the nearest integer, ties to even
RoundHalfEven(a, b) ==
    LET q == a \div b
        r == a % b
    IN  IF 2 * r < b THEN q
        ELSE IF 2 * r > b THEN q + 1
        ELSE IF q % 2 = 0 THEN q ELSE q + 1

\* format(x, '.2f') of the float n / d
Fixed2(n, d) ==
    LET h == RoundHalfEven(Abs(n) * 100, Abs(d))
        neg == (n < 0 /\ d > 0) \/ (n >= 0 /\ d < 0)
        frac == h % 100
    IN  (IF neg THEN "-" ELSE "") \o ToString(h \div 100) \o "."
        \o Digits[(frac \div 10) + 1] \o Digits[(frac % 10) + 1]

\* Mutant of format_pct: None is formatted too, which raises.
format_pct_unguarded(pct_diff) ==
    IF pct_diff.t \in {"none", "str"}
    THEN Raise("TypeError",
               "unsupported format string passed to NoneType.__format__")
    ELSE IF pct_diff.t = "inf" THEN Ok(Str("inf%"))
    ELSE Ok(Str(Fixed2(pct_diff.n, pct_diff.d) \o "%"))

\* f"{pct_diff:.2f}%" if pct_diff is not None else "N/A", line 264
format_pct(pct_diff) ==
    IF pct_diff.t = "none" THEN Ok(Str("N/A"))
    ELSE IF pct_diff.t = "str"
    THEN Raise("ValueError",
               "Unknown format code 'f' for object of type 'str'")
    ELSE IF pct_diff.t = "inf" THEN Ok(Str("inf%"))
    ELSE Ok(Str(Fixed2(pct_diff.n, pct_diff.d) \o "%"))

\* kpi_query[:100] + '...' if len(kpi_query) > 100 else kpi_query
query_preview(kpi_query) ==
    IF kpi_query.t # "str"
    THEN Raise("TypeError", "object of type 'NoneType' has no len()")
    ELSE IF Len(kpi_query.s) > 100
    THEN Ok(Str(SubSeq(kpi_query.s, 1, 100) \o "..."))
    ELSE Ok(kpi_query)

\* Lines 231-266: the try of the loop body after the two queries, up to
\* the row it appends.  r_source and r_clone are the two results.
kpi_row_try(kpi, r_source, r_clone) ==
    LET c == compare(r_source, r_clone)
        preview == query_preview(kpi.query)
        shown == format_pct(c.pct_diff)
    IN  IF preview.exc # "" THEN preview
        ELSE IF shown.exc # "" THEN shown
        ELSE Ok([kpi_id |-> kpi.id, kpi_name |-> kpi.name,
                 query |-> preview.val,
                 source_value |-> r_source,
                 clone_value |-> r_clone,
                 difference |-> IF c.diff.t # "none" THEN c.diff
                                ELSE Str("N/A"),
                 difference_pct |-> shown.val,
                 status |-> c.status])

\* Lines 268-278: the except of the loop body, which builds the error row.
kpi_row_except(kpi, e) ==
    LET preview == query_preview(kpi.query)
    IN  IF preview.exc # "" THEN preview
        ELSE Ok([kpi_id |-> kpi.id, kpi_name |-> kpi.name,
                 query |-> preview.val,
                 source_value |-> Str("Error: " \o e.msg),
                 clone_value |-> Str(""),
                 difference |-> Str(""),
                 difference_pct |-> Str(""),
                 status |-> Error])

\* Lines 231-278: one iteration of the for loop after the two queries.  An
\* exception left in the result is one the except block itself raised: it
\* leaves the loop.
kpi_row(kpi, r_source, r_clone) ==
    LET body == kpi_row_try(kpi, r_source, r_clone)
    IN  IF body.exc # "" THEN kpi_row_except(kpi, body) ELSE body

-----------------------------------------------------------------------------
(* The inputs of the KPI operations *)

\* How many rows ORDER_KPIS holds at most.
MaxKpis == 2

\* How many fragments a KPI_VALUE text is put together from at most.
MaxFrags == 3

\* First columns a KPI statement can return.  The last one is text the
\* warehouse returned, not a caught exception.
Scalars ==
    {None, Num(0), Num(80), Num(100), Str("80"), Str("abc"),
     Str("QUERY_ERROR: timeout")}

Behaviours == {BehRaise("timeout"), BehNoRow} \cup {BehRow(v) : v \in Scalars}

\* KPI_VALUE of an ORDER_KPIS row in a validation run: a statement, or NULL.
KpiQueries == {Str("SELECT SUM(AMT) FROM ORDER_DATA"), None}

\* The ORDER_KPIS tables of up to MaxKpis rows; row i has KPI_ID i.
KpiTables ==
    UNION {[1..len -> KpiQueries] : len \in 0..MaxKpis}

KpiRows(queries) ==
    [i \in 1..Len(queries) |->
        [id |-> Num(i), name |-> Str("KPI"), query |-> queries[i]]]

Fragments == {"ORDER_DATA", "ORDER_", "DATA", " t."}

RECURSIVE Concat(_)
Concat(parts) == IF Len(parts) = 0 THEN "" ELSE Head(parts) \o Concat(Tail(parts))

\* Query arguments of execute_kpi_query: texts of up to MaxFrags fragments,
\* the statement of the KPI example, and None.
Templates ==
    {Str(Concat(parts)) :
        parts \in UNION {[1..len -> Fragments] : len \in 0..MaxFrags}}
    \cup {Str("SELECT COUNT(*) FROM ORDER_DATA WHERE ORDER_DATA.STATUS='OPEN'"),
          None}

Schemas == {"SALES", "SALES_CLONE", "ORDER_DATA"}

NotCalled == [out |-> Raise("NotCalled", ""), sent |-> ""]

-----------------------------------------------------------------------------
(* validate_kpis as a state machine *)

NoReturn == [frame |-> <<>>, msg |-> ""]

\* The source_schema and target_schema arguments of the run.
SourceSchema == "SALES"
TargetSchema == "SALES_CLONE"

\* Lines 283-284: the outer except.
validate_kpis_except(e) ==
    [frame |-> <<>>, msg |-> CROSS \o " KPI validation failed: " \o e.msg]

\* str.contains(sub), line 530
contains(x, sub) ==
    \E k \in 1..(Len(x) - Len(sub) + 1) : SubSeq(x, k, k + Len(sub) - 1) = sub

\* Line 529: kpi_results['Status'] == Match
is_match_row(row) == row.status = Match

\* Mutant of is_error_row: the status is compared with the icon.
is_error_row_equal(row) == row.status = CROSS

\* Line 530: kpi_results['Status'].str.contains(CROSS)
is_error_row(row) == contains(row.status, CROSS)

NoSummary == [shown |-> FALSE, total_kpis |-> 0, matched_kpis |-> 0,
              error_kpis |-> 0]

\* Lines 505-540: the metrics shown for a frame that is not empty; an
\* empty frame shows the message instead.
kpi_summary(kpi_results) ==
    IF Len(kpi_results) = 0 THEN NoSummary
    ELSE [shown |-> TRUE,
          total_kpis |-> Len(kpi_results),
          matched_kpis |-> Len(SelectSeq(kpi_results, is_match_row)),
          error_kpis |-> Len(SelectSeq(kpi_results, is_error_row))]

\* Lines 498-538: validate_kpis returns r and the handler shows it.
Returns(r) ==
    /\ ret' = r
    /\ summary' = kpi_summary(r.frame)
    /\ pc' = "done"

\* Lines 212-221: the ORDER_KPIS fetch, which raises or returns its rows.
FetchKpis ==
    /\ pc = "start"
    /\ \E fetched \in {Raise("ProgrammingError", "no such table")}
                      \cup {Ok(KpiRows(q)) : q \in KpiTables} :
        IF fetched.exc # ""
        THEN /\ Returns(validate_kpis_except(fetched))
             /\ UNCHANGED <<kpis, idx, results>>
        ELSE IF Len(fetched.val) = 0
        THEN /\ Returns([frame |-> <<>>,
                         msg |-> WARN
                                 \o " No KPIs found in the source schema"])
             /\ UNCHANGED <<kpis, idx, results>>
        ELSE /\ kpis' = fetched.val
             /\ idx' = 1
             /\ results' = <<>>
             /\ pc' = "loop"
             /\ UNCHANGED <<ret, summary>>
    /\ UNCHANGED <<result_source, result_clone, raised, queryVars, schemaVars>>

\* Lines 223-281: one iteration of the for loop, and after the last one
\* the return of the frame.
KpiStep ==
    /\ pc = "loop"
    /\ \E beh_source \in Behaviours, beh_clone \in Behaviours :
        LET r_source == execute_kpi_query(kpis[idx].query, SourceSchema,
                                          beh_source).out.val
            r_clone == execute_kpi_query(kpis[idx].query, TargetSchema,
                                         beh_clone).out.val
            row == kpi_row(kpis[idx], r_source, r_clone)
        IN  /\ result_source' = r_source
            /\ result_clone' = r_clone
            /\ raised' =
                  [source |-> execute_kpi_query_try(
                                  kpis[idx].query, SourceSchema,
                                  beh_source).out.exc # "",
                   clone |-> execute_kpi_query_try(
                                 kpis[idx].query, TargetSchema,
                                 beh_clone).out.exc # ""]
            /\ IF row.exc # ""
               THEN /\ Returns(validate_kpis_except(row))
                    /\ UNCHANGED <<idx, results>>
               ELSE /\ results' = Append(results, row.val)
                    /\ idx' = idx + 1
                    /\ IF idx = Len(kpis)
                       THEN Returns([frame |-> Append(results, row.val),
                                     msg |-> CHECK
                                             \o " KPI validation completed"])
                       ELSE UNCHANGED <<ret, summary, pc>>
    /\ UNCHANGED <<kpis, queryVars, schemaVars>>

\* One call of execute_kpi_query on the arguments drawn at the start.
ExecuteKpiQuery ==
    /\ q_out = NotCalled
    /\ \E beh \in Behaviours :
        /\ q_beh' = beh
        /\ q_out' = execute_kpi_query(q_query, q_schema, beh)
    /\ UNCHANGED <<q_query, q_schema, kpiVars, schemaVars>>

-----------------------------------------------------------------------------
(* compare_table_differences and compare_column_differences *)

\* Table names in ascending order, column names and declared types of the
\* catalogs compared.
TableNames == <<"CUSTOMERS", "ORDER_DATA">>
ColumnNames == {"AMT", "ID"}
DataTypes == {"NUMBER(38,0)", "VARCHAR(16)"}

Range(f) == {f[i] : i \in DOMAIN f}

\* DESCRIBE TABLE of one table: column name -> declared type.
ColumnMaps == UNION {[cs -> DataTypes] : cs \in SUBSET ColumnNames \ {{}}}

\* One schema of the catalog: table name -> columns.
SchemaMaps == UNION {[ts -> ColumnMaps] : ts \in SUBSET Range(TableNames)}

MissingInSourceTable == "Missing in source - Table Dropped"
MissingInCloneTable == "Missing in clone - Table Added"
PresentInBoth == "Present in both"

\* Lines 106-112: the row of the full outer join for table name t.
table_join_row(source, clone, t) ==
    [table_name |-> t,
     difference |-> IF t \notin DOMAIN source THEN MissingInSourceTable
                    ELSE IF t \notin DOMAIN clone THEN MissingInCloneTable
                    ELSE PresentInBoth]

\* Mutant of table_join_where: the WHERE clause is missing.
table_join_where_all(source, clone, t) == TRUE

\* Line 115: WHERE s.table_name IS NULL OR c.table_name IS NULL
table_join_where(source, clone, t) ==
    t \notin DOMAIN source \/ t \notin DOMAIN clone

\* Line 116: ORDER BY difference, table_name.  The labels in ascending
\* order, each with the table names in ascending order.
table_order_by(rows) ==
    LET labels == <<MissingInCloneTable, MissingInSourceTable, PresentInBoth>>
        n == Len(TableNames)
        slot(k) == [table_name |-> TableNames[((k - 1) % n) + 1],
                    difference |-> labels[((k - 1) \div n) + 1]]
        RECURSIVE walk(_)
        walk(k) == IF k > n * Len(labels) THEN <<>>
                   ELSE (IF slot(k) \in rows THEN <<slot(k)>> ELSE <<>>)
                        \o walk(k + 1)
    IN  walk(1)

\* Lines 91-121: the rows of the statement, as the returned frame.
compare_table_differences(source, clone) ==
    table_order_by(
        {table_join_row(source, clone, t) :
            t \in {u \in DOMAIN source \cup DOMAIN clone :
                      table_join_where(source, clone, u)}})

Perms(S) ==
    {f \in [1..Cardinality(S) -> S] : \A x \in S : \E k \in DOMAIN f : f[k] = x}

MissingInSourceColumn == "Missing in source - Column Dropped"
MissingInCloneColumn == "Missing in clone - Column Added"

\* Mutant of type_changed: every column of both sides counts as changed.
type_changed_always(source_type, clone_type) == TRUE

\* Line 179: source_cols[col] != clone_cols[col]
type_changed(source_type, clone_type) == source_type # clone_type

\* Mutant of column_rows: the row of a column missing in the source takes
\* its clone type from the source description.
column_rows_wrong_side(table, col, source_cols, clone_cols) ==
    IF col \notin DOMAIN source_cols
    THEN [presence |-> <<[table |-> table, column |-> col,
                          difference |-> MissingInSourceColumn,
                          source_type |-> None,
                          clone_type |-> None]>>,
          types |-> <<>>]
    ELSE IF col \notin DOMAIN clone_cols
    THEN [presence |-> <<[table |-> table, column |-> col,
                          difference |-> MissingInCloneColumn,
                          source_type |-> Str(source_cols[col]),
                          clone_type |-> None]>>,
          types |-> <<>>]
    ELSE IF type_changed(source_cols[col], clone_cols[col])
    THEN [presence |-> <<>>,
          types |-> <<[table |-> table, column |-> col,
                       source_type |-> Str(source_cols[col]),
                       clone_type |-> Str(clone_cols[col]),
                       message |-> "Data Type Changed"]>>]
    ELSE [presence |-> <<>>, types |-> <<>>]

\* Lines 158-186: what one column of a common table appends to
\* column_diff_data (presence) and datatype_diff_data (types).
column_rows(table, col, source_cols, clone_cols) ==
    IF col \notin DOMAIN source_cols
    THEN [presence |-> <<[table |-> table, column |-> col,
                          difference |-> MissingInSourceColumn,
                          source_type |-> None,
                          clone_type |-> Str(clone_cols[col])]>>,
          types |-> <<>>]
    ELSE IF col \notin DOMAIN clone_cols
    THEN [presence |-> <<[table |-> table, column |-> col,
                          difference |-> MissingInCloneColumn,
                          source_type |-> Str(source_cols[col]),
                          clone_type |-> None]>>,
          types |-> <<>>]
    ELSE IF type_changed(source_cols[col], clone_cols[col])
    THEN [presence |-> <<>>,
          types |-> <<[table |-> table, column |-> col,
                       source_type |-> Str(source_cols[col]),
                       clone_type |-> Str(clone_cols[col]),
                       message |-> "Data Type Changed"]>>]
    ELSE [presence |-> <<>>, types |-> <<>>]

\* Lines 157-186: the loop over all_columns, in the order cols.
RECURSIVE table_rows(_, _, _, _)
table_rows(table, cols, source_cols, clone_cols) ==
    IF Len(cols) = 0 THEN [presence |-> <<>>, types |-> <<>>]
    ELSE LET first == column_rows(table, Head(cols), source_cols, clone_cols)
             rest == table_rows(table, Tail(cols), source_cols, clone_cols)
         IN  [presence |-> first.presence \o rest.presence,
              types |-> first.types \o rest.types]

\* Lines 128-138: the tables of the inner join, as a set.
common_tables(source, clone) == DOMAIN source \cap DOMAIN clone

\* Lines 143-197: the loop over common_tables in the order tables, the
\* columns of table t in the order col_order[t].
RECURSIVE compare_column_differences(_, _, _, _)
compare_column_differences(source, clone, tables, col_order) ==
    IF Len(tables) = 0 THEN [presence |-> <<>>, types |-> <<>>]
    ELSE LET t == Head(tables)
             first == table_rows(t, col_order[t], source[t], clone[t])
             rest == compare_column_differences(source, clone, Tail(tables),
                                                col_order)
         IN  [presence |-> first.presence \o rest.presence,
              types |-> first.types \o rest.types]

\* The catalogs a validation can meet.  information_schema.tables has no
\* row for a schema name that does not exist: such a schema has no tables.
Catalogs ==
    {c \in [source : SchemaMaps, clone : SchemaMaps,
            source_exists : BOOLEAN, clone_exists : BOOLEAN] :
        /\ ~c.source_exists => DOMAIN c.source = {}
        /\ ~c.clone_exists => DOMAIN c.clone = {}}

\* Lines 433-444: the table comparison of a validation.  cursor.execute
\* (line 119) returns the rows or raises; nothing catches what it raises.
CompareTables ==
    /\ called = "none"
    /\ \E raises \in BOOLEAN :
        IF raises
        THEN /\ called' = "failed"
             /\ UNCHANGED table_diff
        ELSE /\ table_diff' =
                    compare_table_differences(catalog.source, catalog.clone)
             /\ called' = "tables"
    /\ UNCHANGED <<catalog, column_diff, datatype_diff, kpiVars, queryVars>>

\* Lines 446-470: the column comparison of a validation.  The statement of
\* lines 128-135 has no ORDER BY and all_columns is a set: the rows come in
\* an order the code does not fix.
\* A cursor.execute of lines 137-150 that raises ends the call with no
\* frame returned.
CompareColumns ==
    /\ called = "tables"
    /\ \E raises \in BOOLEAN :
        IF raises
        THEN /\ called' = "failed"
             /\ UNCHANGED <<column_diff, datatype_diff>>
        ELSE
          LET common == common_tables(catalog.source, catalog.clone)
          IN  \E tables \in Perms(common) :
              \E col_order \in
                    [common -> UNION {Perms(cs) : cs \in SUBSET ColumnNames}] :
                /\ \A t \in common :
                      Range(col_order[t]) =
                          DOMAIN catalog.source[t] \cup DOMAIN catalog.clone[t]
                /\ LET r == compare_column_differences(
                                catalog.source, catalog.clone, tables,
                                col_order)
                   IN  /\ column_diff' = r.presence
                       /\ datatype_diff' = r.types
                /\ called' = "columns"
    /\ UNCHANGED <<catalog, table_diff, kpiVars, queryVars>>

\* A validation run.
InitKpi ==
    /\ pc = "start"
    /\ kpis = <<>>
    /\ idx = 0
    /\ results = <<>>
    /\ result_source = None
    /\ result_clone = None
    /\ raised = [source |-> FALSE, clone |-> FALSE]
    /\ ret = NoReturn
    /\ summary = NoSummary
    /\ q_query = None
    /\ q_schema = ""
    /\ q_beh = BehNoRow
    /\ q_out = NotCalled
    /\ catalog = <<>>
    /\ table_diff = <<>>
    /\ column_diff = <<>>
    /\ datatype_diff = <<>>
    /\ called = "none"

NextKpi == FetchKpis \/ KpiStep

SpecKpi == InitKpi /\ [][NextKpi]_vars

\* Calls of execute_kpi_query.
InitQuery ==
    /\ q_query \in Templates
    /\ q_schema \in Schemas
    /\ q_beh = BehNoRow
    /\ q_out = NotCalled
    /\ pc = "start"
    /\ kpis = <<>>
    /\ idx = 0
    /\ results = <<>>
    /\ result_source = None
    /\ result_clone = None
    /\ raised = [source |-> FALSE, clone |-> FALSE]
    /\ ret = NoReturn
    /\ summary = NoSummary
    /\ catalog = <<>>
    /\ table_diff = <<>>
    /\ column_diff = <<>>
    /\ datatype_diff = <<>>
    /\ called = "none"

NextQuery == ExecuteKpiQuery

SpecQuery == InitQuery /\ [][NextQuery]_vars

\* A schema validation: the two comparisons over one catalog.
InitSchema ==
    /\ catalog \in Catalogs
    /\ table_diff = <<>>
    /\ column_diff = <<>>
    /\ datatype_diff = <<>>
    /\ called = "none"
    /\ pc = "start"
    /\ kpis = <<>>
    /\ idx = 0
    /\ results = <<>>
    /\ result_source = None
    /\ result_clone = None
    /\ raised = [source |-> FALSE, clone |-> FALSE]
    /\ ret = NoReturn
    /\ summary = NoSummary
    /\ q_query = None
    /\ q_schema = ""
    /\ q_beh = BehNoRow
    /\ q_out = NotCalled

NextSchema == CompareTables \/ CompareColumns

SpecSchema == InitSchema /\ [][NextSchema]_vars

-----------------------------------------------------------------------------
(* Claims about validate_kpis, checked under SpecKpi *)

\* The run left the loop through the except of lines 283-284.
Aborted == pc = "done" /\ Len(kpis) >= 1 /\ ret.frame = <<>>

\* The last iteration appended a row for result_source and result_clone.
Compared == pc \in {"loop", "done"} /\ Len(results) >= 1 /\ ~Aborted

LastRow == results[Len(results)]

\* The value execute_kpi_query returns for a caught exception.
IsErrorMarker(v) == v.t = "str" /\ startswith(v.s, "QUERY_ERROR: ")

\* The value is neither a number nor text that reads as one.
CoercionFails(v) ==
    \/ v.t = "none"
    \/ /\ v.t = "str"
       /\ ~(Len(v.s) >= 1 /\ AllDigits(v.s))
       /\ ~(Len(v.s) >= 2 /\ Head(v.s) = "-" /\ AllDigits(Tail(v.s)))

\* C1: a run whose ORDER_KPIS fetch returned N >= 1 definitions returns
\* exactly N rows, row i for definition i, whatever the KPI queries did.
C1_OneRowPerKpi ==
    (pc = "done" /\ Len(kpis) >= 1) =>
        /\ Len(ret.frame) = Len(kpis)
        /\ \A i \in 1..Len(kpis) : ret.frame[i].kpi_id = kpis[i].id

\* C2: two unequal results, neither an error marker, of which one does not
\* coerce to a number, give difference "N/A", percent "N/A" and Mismatch.
C2_CoercionFailureIsMismatch ==
    (/\ Compared
     /\ ~IsErrorMarker(result_source)
     /\ ~IsErrorMarker(result_clone)
     /\ result_source # result_clone
     /\ (CoercionFails(result_source) \/ CoercionFails(result_clone))) =>
        /\ LastRow.difference = Str("N/A")
        /\ LastRow.difference_pct = Str("N/A")
        /\ LastRow.status = Mismatch

\* C3: a source error marker gives Source Error, also beside a clone error
\* marker; otherwise a clone error marker gives Clone Error; Match and
\* Mismatch are statuses of rows with no error marker.
C3_SourceErrorFirst ==
    Compared =>
        /\ IsErrorMarker(result_source) => LastRow.status = SourceError
        /\ (~IsErrorMarker(result_source) /\ IsErrorMarker(result_clone)) =>
               LastRow.status = CloneError
        /\ LastRow.status \in {Match, Mismatch} =>
               (~IsErrorMarker(result_source) /\ ~IsErrorMarker(result_clone))

C3_Witness ==
    /\ Compared
    /\ IsErrorMarker(result_source)
    /\ IsErrorMarker(result_clone)
    /\ LastRow.status = SourceError

\* Text of the form [-]digits.dd% : a number with exactly two decimals and
\* a trailing percent sign.
IsPercentText(x) ==
    /\ Len(x) >= 5
    /\ SubSeq(x, Len(x), Len(x)) = "%"
    /\ SubSeq(x, Len(x) - 3, Len(x) - 3) = "."
    /\ AllDigits(SubSeq(x, Len(x) - 2, Len(x) - 1))
    /\ LET whole == SubSeq(x, 1, Len(x) - 4)
       IN  \/ Len(whole) >= 1 /\ AllDigits(whole)
           \/ Len(whole) >= 2 /\ Head(whole) = "-" /\ AllDigits(Tail(whole))

\* The number a percent text shows, in hundredths.
HundredthsOf(x) ==
    LET whole == SubSeq(x, 1, Len(x) - 4)
        frac == DigitsValue(SubSeq(x, Len(x) - 2, Len(x) - 1))
    IN  IF Head(whole) = "-"
        THEN 0 - (DigitsValue(Tail(whole)) * 100 + frac)
        ELSE DigitsValue(whole) * 100 + frac

\* The number a result coerces to.
NumberOf(v) == IF v.t = "num" THEN v.n ELSE DigitsValue(v.s)

\* C4: two unequal results that both coerce to numbers give Mismatch,
\* difference = source - clone and, for a source other than 0, the percent
\* text with two decimals nearest to difference / source * 100; a source of
\* 0 gives the infinite indicator and no error row.
C4_NumericMismatch ==
    (/\ Compared
     /\ ~IsErrorMarker(result_source)
     /\ ~IsErrorMarker(result_clone)
     /\ result_source # result_clone
     /\ ~CoercionFails(result_source)
     /\ ~CoercionFails(result_clone)) =>
        LET source == NumberOf(result_source)
            clone == NumberOf(result_clone)
            shown == LastRow.difference_pct.s
        IN  /\ LastRow.status = Mismatch
            /\ LastRow.difference = Num(source - clone)
            /\ source = 0 => shown = "inf%"
            /\ source # 0 =>
                  /\ IsPercentText(shown)
                  /\ 2 * Abs(HundredthsOf(shown) * source
                             - (source - clone) * 10000) <= Abs(source)
            /\ (source = 100 /\ clone = 80) =>
                  (LastRow.difference = Num(20) /\ shown = "20.00%")

C4_Witness ==
    /\ Compared
    /\ result_source = Num(100)
    /\ result_clone = Num(80)
    /\ LastRow.status = Mismatch
    /\ LastRow.difference_pct = Str("20.00%")

\* C5: two equal results, neither an error marker (both None included),
\* give Match with difference "N/A" and percent "N/A".
C5_EqualIsMatch ==
    (/\ Compared
     /\ ~IsErrorMarker(result_source)
     /\ ~IsErrorMarker(result_clone)
     /\ result_source = result_clone) =>
        /\ LastRow.status = Match
        /\ LastRow.difference = Str("N/A")
        /\ LastRow.difference_pct = Str("N/A")

C5_Witness ==
    /\ Compared
    /\ result_source = None
    /\ result_clone = None
    /\ LastRow.status = Match

-----------------------------------------------------------------------------
(* Claims about execute_kpi_query, checked under SpecQuery *)

QueryCalled == q_out # NotCalled

\* C9: the call returns and never raises: the first column of the row, None
\* for no row, or the error marker with the message of the exception that
\* the substitution or the statement raised.
C9_NeverRaises ==
    QueryCalled =>
        /\ q_out.out.exc = ""
        /\ q_query.t # "str" =>
               /\ IsErrorMarker(q_out.out.val)
               /\ q_out.sent = ""
        /\ (q_query.t = "str" /\ q_beh.kind = "raise") =>
               q_out.out.val = Str("QUERY_ERROR: " \o q_beh.msg)
        /\ (q_query.t = "str" /\ q_beh.kind = "norow") =>
               q_out.out.val = None
        /\ (q_query.t = "str" /\ q_beh.kind = "row") =>
               q_out.out.val = q_beh.value

C9_Witness ==
    /\ QueryCalled
    /\ q_query.t = "str"
    /\ q_beh.kind = "raise"
    /\ q_out.out = Ok(Str("QUERY_ERROR: timeout"))

\* ORDER_DATA starts at position k of x.
TokenAt(x, k) ==
    /\ k + Len("ORDER_DATA") - 1 <= Len(x)
    /\ SubSeq(x, k, k + Len("ORDER_DATA") - 1) = "ORDER_DATA"

\* x from position k on, with "<schema>." put in front of every position
\* of x where ORDER_DATA starts and every character of x kept.
RECURSIVE QualifiedFrom(_, _, _)
QualifiedFrom(x, schema, k) ==
    IF k > Len(x) THEN ""
    ELSE (IF TokenAt(x, k) THEN schema \o "." ELSE "")
         \o SubSeq(x, k, k) \o QualifiedFrom(x, schema, k + 1)

\* C10: the statement sent is the template with every ORDER_DATA of the
\* template turned into <schema>.ORDER_DATA, the rest unchanged and the
\* inserted text not substituted again.
C10_EveryTokenQualified ==
    (QueryCalled /\ q_query.t = "str") =>
        /\ q_out.sent = QualifiedFrom(q_query.s, q_schema, 1)
        /\ (/\ q_schema = "SALES_CLONE"
            /\ q_query.s = "SELECT COUNT(*) FROM ORDER_DATA WHERE ORDER_DATA.STATUS='OPEN'") =>
               q_out.sent = "SELECT COUNT(*) FROM SALES_CLONE.ORDER_DATA WHERE SALES_CLONE.ORDER_DATA.STATUS='OPEN'"

C10_Witness ==
    /\ QueryCalled
    /\ q_schema = "SALES_CLONE"
    /\ q_query = Str("SELECT COUNT(*) FROM ORDER_DATA WHERE ORDER_DATA.STATUS='OPEN'")
    /\ q_out.sent = "SELECT COUNT(*) FROM SALES_CLONE.ORDER_DATA WHERE SALES_CLONE.ORDER_DATA.STATUS='OPEN'"

-----------------------------------------------------------------------------
(* Claims about the schema comparisons, checked under SpecSchema *)

endswith(x, suffix) ==
    /\ Len(x) >= Len(suffix)
    /\ SubSeq(x, Len(x) - Len(suffix) + 1, Len(x)) = suffix

\* The entries of table_diff for table t.
TableEntries(t) ==
    {k \in 1..Len(table_diff) : table_diff[k].table_name = t}

OnlyInSource(t) == t \in DOMAIN catalog.source /\ t \notin DOMAIN catalog.clone
OnlyInClone(t) == t \notin DOMAIN catalog.source /\ t \in DOMAIN catalog.clone
InBoth(t) == t \in DOMAIN catalog.source /\ t \in DOMAIN catalog.clone

\* C6 as stated: a table only in the source has exactly one entry, of kind
\* Table Dropped; a table only in the clone exactly one, of kind Table
\* Added; a table in both has none.
C6_DroppedForSourceOnly ==
    called \in {"tables", "columns"} =>
        \A t \in Range(TableNames) :
            /\ OnlyInSource(t) =>
                  /\ Cardinality(TableEntries(t)) = 1
                  /\ \A k \in TableEntries(t) :
                        endswith(table_diff[k].difference, "Table Dropped")
            /\ OnlyInClone(t) =>
                  /\ Cardinality(TableEntries(t)) = 1
                  /\ \A k \in TableEntries(t) :
                        endswith(table_diff[k].difference, "Table Added")
            /\ InBoth(t) => TableEntries(t) = {}

\* C6 as amended: a table only in the source has exactly one entry,
\* labelled "Missing in clone - Table Added"; a table only in the clone
\* exactly one, labelled "Missing in source - Table Dropped"; a table in
\* both has none.
C6_OneEntryPerOneSidedTable ==
    called \in {"tables", "columns"} =>
        \A t \in Range(TableNames) :
            /\ OnlyInSource(t) =>
                  /\ Cardinality(TableEntries(t)) = 1
                  /\ \A k \in TableEntries(t) :
                        table_diff[k].difference
                            = "Missing in clone - Table Added"
            /\ OnlyInClone(t) =>
                  /\ Cardinality(TableEntries(t)) = 1
                  /\ \A k \in TableEntries(t) :
                        table_diff[k].difference
                            = "Missing in source - Table Dropped"
            /\ InBoth(t) => TableEntries(t) = {}

C6_Witness ==
    /\ called \in {"tables", "columns"}
    /\ \E t, u \in Range(TableNames) :
          /\ OnlyInSource(t)
          /\ OnlyInClone(u)
          /\ table_diff
                 = <<[table_name |-> t,
                      difference |-> "Missing in clone - Table Added"],
                     [table_name |-> u,
                      difference |-> "Missing in source - Table Dropped"]>>

\* The rows of column_diff and of datatype_diff for column c of table t.
PresenceRows(t, c) ==
    {k \in 1..Len(column_diff) :
        column_diff[k].table = t /\ column_diff[k].column = c}

TypeRows(t, c) ==
    {k \in 1..Len(datatype_diff) :
        datatype_diff[k].table = t /\ datatype_diff[k].column = c}

C8_IdenticalSchemasNoDiff ==
    catalog.source = catalog.clone =>
        /\ called \in {"tables", "columns"} => table_diff = <<>>
        /\ called = "columns" => (column_diff = <<>> /\ datatype_diff = <<>>)

C8_Witness ==
    /\ called = "columns"
    /\ catalog.source = catalog.clone
    /\ DOMAIN catalog.source = Range(TableNames)
    /\ \A t \in Range(TableNames) : DOMAIN catalog.source[t] = ColumnNames
    /\ table_diff = <<>>
    /\ column_diff = <<>>
    /\ datatype_diff = <<>>

\* A schema name of the comparison names no schema.
SchemaMissing == ~catalog.source_exists \/ ~catalog.clone_exists

\* C11: a comparison with a schema that does not exist ends in a failure,
\* never in a returned diff.
C11_MissingSchemaFails ==
    (called # "none" /\ SchemaMissing) => called = "failed"

-----------------------------------------------------------------------------
(* Claims about the KPI summary and the error statuses, under SpecKpi *)

\* The rows of the returned frame with one of the given statuses.
RowsWith(statuses) ==
    {k \in 1..Len(ret.frame) : ret.frame[k].status \in statuses}

\* C12: the summary of a returned frame has total = its rows, matched =
\* its Match rows and errorCount = its Source Error, Clone Error and Error
\* rows; the rest, total - matched - errorCount, are its Mismatch rows.
C12_SummaryCounts ==
    summary.shown =>
        /\ summary.total_kpis = Len(ret.frame)
        /\ summary.matched_kpis = Cardinality(RowsWith({Match}))
        /\ summary.error_kpis
               = Cardinality(RowsWith({SourceError, CloneError, Error}))
        /\ summary.matched_kpis + summary.error_kpis <= summary.total_kpis
        /\ summary.total_kpis - summary.matched_kpis - summary.error_kpis
               = Cardinality(RowsWith({Mismatch}))

C12_Witness ==
    /\ summary.shown
    /\ summary.total_kpis = 2
    /\ summary.matched_kpis = 1
    /\ summary.error_kpis = 1
    /\ ret.frame[1].status = CloneError
    /\ ret.frame[2].status = Match

\* C13: a row has status Source Error only if the source query raised and
\* Clone Error only if the clone query raised.
C13_ErrorStatusOnlyIfRaised ==
    Compared =>
        /\ LastRow.status = SourceError => raised.source
        /\ LastRow.status = CloneError => raised.clone

====
